---- MODULE Spec2Model ----
(***************************************************************************)
(* static-box: a Box that stores a `dyn T` object in a caller-supplied     *)
(* byte buffer.  The buffer holds {padding}{DynMetadata}{padding}{value}.  *)
(* The model keeps the buffer byte by byte; every access re-reads the      *)
(* descriptor from the buffer, as src/src/lib.rs does.                      *)
(***************************************************************************)
EXTENDS Integers, Sequences, FiniteSets, TLC

\* ------------------------------------------------------------------ bounds
MaxAddr == 8        \* buffer start addresses are 1..MaxAddr
MaxLen == 23        \* buffer lengths are 0..MaxLen
MaxBoxes == 2       \* constructions attempted in one run

\* ----------------------------------------------------------- the platform
\* size_of::<usize>() of the target: DynMetadata<T> is one pointer wide.
PointerWidths == {4, 8}

\* Concrete types that are coerced to `dyn T` in the runs of the model.
\* "unit" is a zero-size type (a unit struct, a closure that captures nothing).
\* "arr3" is [u8; 3].
Types == {"unit", "arr3", "u64"}

\* core::mem::size_of of the concrete type
SizeOf(ty) == CASE ty = "unit" -> 0 [] ty = "arr3" -> 3 [] ty = "u64" -> 8

\* core::mem::align_of of the concrete type
AlignOf(ty) == CASE ty = "unit" -> 1 [] ty = "arr3" -> 1 [] ty = "u64" -> 8

\* The values a caller passes; a zero-size type has one value.
ValuesOf(ty) == IF ty = "unit" THEN {0} ELSE {4, 7}

AllValues == UNION {ValuesOf(ty) : ty \in Types}

\* Where a Box lives: a local variable, or a field of a struct it moved into.
Owners == {"local", "field"}

VARIABLES
    usize,     \* pointer width of the target, in bytes
    addr,      \* address of the buffer's first byte
    mem,       \* the buffer: 0..len-1 -> byte
    pending,   \* <<>> or <<[ty, v]>>: the value the caller is about to box
    sized,     \* <<>> or <<layout>>: result of layout_of_dyn(&pending)
    box,       \* <<>> or <<[align_offset, owner]>>: the live Box
    ghost,     \* <<>> or <<[ty, v0, val, before]>>: last construction
    lastRef,   \* <<>> or <<[meta, data]>>: what the last access returned
    dropLog,   \* destructor calls made through the descriptor, in order
    ended,     \* values of the containers whose life ended, in order
    fault,     \* <<"none",0,0>>, or the panic / undefined behaviour reached
    nBoxes     \* number of Box::new calls so far

vars == <<usize, addr, mem, pending, sized, box, ghost, lastRef, dropLog,
          ended, fault, nBoxes>>

len == Cardinality(DOMAIN mem)

\* ------------------------------------------------------------ byte cells
InitByte == <<"init", "-", 0, 0>>

OutOfBounds == <<"oob", "-", 0, 0>>

\* The i-th byte of the vtable pointer of concrete type ty.
MetaBytes(n, ty) == [i \in 1..n |-> <<"meta", ty, 0, i - 1>>]

\* The bytes of value v of concrete type ty.
ValueBytes(ty, v) == [i \in 1..SizeOf(ty) |-> <<"val", ty, v, i - 1>>]

ReadByte(m, i) == IF i \in DOMAIN m THEN m[i] ELSE OutOfBounds

ReadBytes(m, at, n) == [i \in 1..n |-> ReadByte(m, at + i - 1)]

WriteBytes(m, at, bytes) ==
    [i \in DOMAIN m |->
        IF i >= at /\ i < at + Len(bytes) THEN bytes[i - at + 1] ELSE m[i]]

\* --------------------------------------------------------- core::alloc
Max(a, b) == IF a >= b THEN a ELSE b

RoundUp(n, a) == ((n + a - 1) \div a) * a

\* Layout::padding_needed_for
PaddingNeededFor(l, align) == RoundUp(l.size, align) - l.size

LayoutExtend_padToAlign(l, next) ==
    LET new_align == Max(l.align, next.align)
        offset == l.size + PaddingNeededFor(l, next.align)
    IN  [layout |-> [size |-> RoundUp(offset + next.size, new_align),
                     align |-> new_align],
         offset |-> offset]

LayoutExtend_noPad(l, next) ==
    [layout |-> [size |-> l.size + next.size,
                 align |-> Max(l.align, next.align)],
     offset |-> l.size]

\* Layout::extend: `next` after `l`, padded so that `next` is aligned; no
\* trailing padding.
LayoutExtend(l, next) ==
    LET new_align == Max(l.align, next.align)
        pad == PaddingNeededFor(l, next.align)
        offset == l.size + pad
        new_size == offset + next.size
    IN  [layout |-> [size |-> new_size, align |-> new_align],
         offset |-> offset]

AlignOffset_pastAligned(p, a) == a - (p % a)

\* <*mut u8>::align_offset: bytes to add to p to reach a multiple of a.
AlignOffset(p, a) == RoundUp(p, a) - p

\* Layout::for_value(&meta): DynMetadata<T> is a pointer to the vtable.
MetaLayout(n) == [size |-> n, align |-> n]

\* Layout::for_value(value) for a value of concrete type ty.
ValueLayout(ty) == [size |-> SizeOf(ty), align |-> AlignOf(ty)]

\* DynMetadata::layout: size and align recorded in the vtable.
VTableLayout(meta) == [size |-> SizeOf(meta), align |-> AlignOf(meta)]

\* ------------------------------------------------------------- lib.rs
meta_offset_layout(n, ty) ==
    LET e == LayoutExtend(MetaLayout(n), ValueLayout(ty))
    IN  [meta |-> ty, layout |-> e.layout, offset |-> e.offset]

layout_of_dyn(n, ty) == meta_offset_layout(n, ty).layout

\* Box::meta: the descriptor read back at mem[align_offset..]; <<>> when the
\* bytes there are not a descriptor (the read is then undefined behaviour).
meta(n, m, b) ==
    LET bytes == ReadBytes(m, b.align_offset, n)
    IN  IF \E ty \in Types : bytes = MetaBytes(n, ty)
        THEN <<CHOOSE ty \in Types : bytes = MetaBytes(n, ty)>>
        ELSE <<>>

\* Box::layout_meta, for a descriptor that was read successfully.
layout_meta(n, m, b) ==
    LET mt == meta(n, m, b)[1]
        e == LayoutExtend(MetaLayout(n), VTableLayout(mt))
    IN  [layout |-> e.layout, offset |-> e.offset, meta |-> mt]

value_ptr_noValueOffset(n, m, b) ==
    [at |-> b.align_offset, meta |-> layout_meta(n, m, b).meta]

\* Box::value_ptr / value_mut_ptr: (data offset in the buffer, descriptor).
value_ptr(n, m, b) ==
    LET lm == layout_meta(n, m, b)
    IN  [at |-> b.align_offset + lm.offset, meta |-> lm.meta]

\* What a `&dyn T` made by as_ref shows: the descriptor and the data bytes.
Deref(n, m, b) ==
    LET p == value_ptr(n, m, b)
    IN  [meta |-> p.meta,
         data |-> ReadBytes(m, p.at, VTableLayout(p.meta).size)]

NoFault == <<"none", 0, 0>>

UB == <<"undefined behaviour", 0, 0>>

\* assert!(layout.size() > 0, "Unsupported value layot")
UnsupportedLayout_valueSize(layout, value_layout) == value_layout.size = 0

UnsupportedLayout(layout, value_layout) == ~(layout.size > 0)

\* total_len = align_offset + layout.size()
TotalLen_noPadding(align_offset, layout) == layout.size

TotalLen(align_offset, layout) == align_offset + layout.size

\* Where Box::new writes the value: ptr.add(offset).
ValueAt_overDescriptor(align_offset, offset) == align_offset

ValueAt(align_offset, offset) == align_offset + offset

\* core::mem::forget(new_box): the aborted Box runs no destructor.
Forget_dropsAnyway(log, n, m, b) ==
    IF meta(n, m, b) = <<>> THEN log ELSE Append(log, Deref(n, m, b))

Forget(log, n, m, b) == log

\* A move copies {align_offset, mem, phantom} to the new owner.
MovedBox_recomputed(b, to) == [align_offset |-> 0, owner |-> to]

MovedBox(b, to) == [align_offset |-> b.align_offset, owner |-> to]

\* ptr::drop_in_place::<T>(&mut **self): the destructor the descriptor names
\* runs on the bytes the reconstructed pointer designates.
DropInPlace(log, n, m, b) == Append(log, Deref(n, m, b))

\* ---------------------------------------------------------------- Init
Init ==
    /\ usize \in PointerWidths
    /\ addr \in 1..MaxAddr
    /\ \E l \in 0..MaxLen : mem = [i \in 0..(l - 1) |-> InitByte]
    /\ pending = <<>>
    /\ sized = <<>>
    /\ box = <<>>
    /\ ghost = <<>>
    /\ lastRef = <<>>
    /\ dropLog = <<>>
    /\ ended = <<>>
    /\ fault = NoFault
    /\ nBoxes = 0

Running == fault = NoFault

\* The caller makes a value of a concrete type implementing the trait.
MakeValue(ty, v) ==
    /\ Running
    /\ pending = <<>>
    /\ box = <<>>
    /\ nBoxes < MaxBoxes
    /\ pending' = <<[ty |-> ty, v |-> v]>>
    /\ UNCHANGED <<usize, addr, mem, sized, box, ghost, lastRef, dropLog,
                   ended, fault, nBoxes>>

\* Box::<dyn T>::layout_of_dyn(&value)
LayoutOfDyn ==
    /\ Running
    /\ pending # <<>>
    /\ sized' = <<layout_of_dyn(usize, pending[1].ty)>>
    /\ UNCHANGED <<usize, addr, mem, pending, box, ghost, lastRef, dropLog,
                   ended, fault, nBoxes>>

\* Box::new(mem, value)
New ==
    /\ Running
    /\ pending # <<>>
    /\ box = <<>>
    /\ LET ty == pending[1].ty
           v == pending[1].v
           mol == meta_offset_layout(usize, ty)
           align_offset == AlignOffset(addr, mol.layout.align)
           new_box == [align_offset |-> align_offset, owner |-> "local"]
           total_len == TotalLen(align_offset, mol.layout)
           buf_len == len
           wrote == WriteBytes(WriteBytes(mem, align_offset,
                                          MetaBytes(usize, mol.meta)),
                               ValueAt(align_offset, mol.offset),
                               ValueBytes(ty, v))
       IN  /\ ghost' = <<[ty |-> ty, v0 |-> v, val |-> v, before |-> mem]>>
           /\ IF UnsupportedLayout(mol.layout, ValueLayout(ty))
              THEN /\ fault' = <<"Unsupported value layot", 0, 0>>
                   /\ UNCHANGED <<mem, box, dropLog>>
              ELSE IF total_len > buf_len
              THEN /\ dropLog' = Forget(dropLog, usize, mem, new_box)
                   /\ fault' = <<"Not enough memory", buf_len, total_len>>
                   /\ UNCHANGED <<mem, box>>
              ELSE /\ mem' = wrote
                   /\ box' = <<new_box>>
                   /\ UNCHANGED <<fault, dropLog>>
    /\ pending' = <<>>
    /\ sized' = <<>>
    /\ lastRef' = <<>>
    /\ nBoxes' = nBoxes + 1
    /\ UNCHANGED <<usize, addr, ended>>

\* as_ref / deref
AsRef ==
    /\ Running
    /\ box # <<>>
    /\ IF meta(usize, mem, box[1]) = <<>>
       THEN fault' = UB /\ UNCHANGED lastRef
       ELSE lastRef' = <<Deref(usize, mem, box[1])>> /\ UNCHANGED fault
    /\ UNCHANGED <<usize, addr, mem, pending, sized, box, ghost, dropLog,
                   ended, nBoxes>>

\* as_mut / deref_mut, and a store of v through the `&mut dyn T`.
AsMut(v) ==
    /\ Running
    /\ box # <<>>
    /\ v \in ValuesOf(ghost[1].ty)
    /\ IF meta(usize, mem, box[1]) = <<>>
       THEN fault' = UB /\ UNCHANGED <<mem, lastRef, ghost>>
       ELSE LET p == value_ptr(usize, mem, box[1])
                m2 == WriteBytes(mem, p.at, ValueBytes(p.meta, v))
            IN  /\ mem' = m2
                /\ lastRef' = <<Deref(usize, m2, box[1])>>
                /\ ghost' = <<[ghost[1] EXCEPT !.val = v]>>
                /\ UNCHANGED fault
    /\ UNCHANGED <<usize, addr, pending, sized, box, dropLog, ended, nBoxes>>

\* The Box is moved: passed to a function, returned, stored in a field.
Move(to) ==
    /\ Running
    /\ box # <<>>
    /\ to # box[1].owner
    /\ box' = <<MovedBox(box[1], to)>>
    /\ UNCHANGED <<usize, addr, mem, pending, sized, ghost, lastRef, dropLog,
                   ended, fault, nBoxes>>

\* impl Drop for Box
Drop ==
    /\ Running
    /\ box # <<>>
    /\ IF meta(usize, mem, box[1]) = <<>>
       THEN fault' = UB /\ UNCHANGED dropLog
       ELSE /\ dropLog' = DropInPlace(dropLog, usize, mem, box[1])
            /\ UNCHANGED fault
    /\ ended' = Append(ended, [ty |-> ghost[1].ty, val |-> ghost[1].val])
    /\ box' = <<>>
    /\ lastRef' = <<>>
    /\ UNCHANGED <<usize, addr, mem, pending, sized, ghost, nBoxes>>

Next ==
    \/ \E ty \in Types : \E v \in ValuesOf(ty) : MakeValue(ty, v)
    \/ LayoutOfDyn
    \/ New
    \/ AsRef
    \/ \E v \in AllValues : AsMut(v)
    \/ \E to \in Owners : Move(to)
    \/ Drop

Spec == Init /\ [][Next]_vars

\* ------------------------------------------------- terms of the claims
\* The least k >= 0 with p + k a multiple of a.
LeastPadding(p, a) ==
    CHOOSE k \in 0..(a - 1) :
        /\ (p + k) % a = 0
        /\ \A j \in 0..(a - 1) : (p + j) % a = 0 => k <= j

\* The least multiple of a that is >= n.
CeilTo(n, a) == CHOOSE k \in n..(n + a - 1) : k % a = 0

Live == box # <<>>

Attempted == ghost # <<>>

Panicked == fault[1] \in {"Not enough memory", "Unsupported value layot"}

\* Combined layout of the value of the last construction.
LastLayout == layout_of_dyn(usize, ghost[1].ty)

\* Bytes the last construction needs in this buffer.
Needed == LeastPadding(addr, LastLayout.align) + LastLayout.size

\* C1: after Box::new(buf, v), every as_ref yields the descriptor derived
\* from v and data bytes equal to v's bytes (while nothing was stored through
\* as_mut), whatever the buffer held before; no access is undefined.
C1_RoundTrip ==
    /\ fault # UB
    /\ (Live /\ lastRef # <<>> /\ ghost[1].val = ghost[1].v0) =>
          lastRef[1] = [meta |-> ghost[1].ty,
                        data |-> ValueBytes(ghost[1].ty, ghost[1].v0)]

\* An access to a non-zero-size value in a container built over the leftover
\* bytes of a dropped one, at an unaligned buffer start.
C1_Witness ==
    /\ Live /\ lastRef # <<>> /\ Len(ended) = 1
    /\ ghost[1].val = ghost[1].v0 /\ SizeOf(ghost[1].ty) > 0
    /\ ghost[1].ty # ended[1].ty
    /\ \E i \in DOMAIN ghost[1].before : ghost[1].before[i] # InitByte
    /\ addr % usize # 0

\* C2: the destructor runs through the descriptor exactly once per
\* constructed container, when its life ends, on the value it then holds;
\* not for a live container and not for an aborted construction.
C2_SingleDestruction ==
    /\ fault # UB
    /\ dropLog = [i \in 1..Len(ended) |->
                     [meta |-> ended[i].ty,
                      data |-> ValueBytes(ended[i].ty, ended[i].val)]]
    /\ nBoxes = Len(ended) + (IF Live THEN 1 ELSE 0)
                           + (IF Panicked THEN 1 ELSE 0)

\* A construction aborted in a buffer that still holds the bytes of a
\* container that was dropped before.
C2_Witness ==
    /\ fault[1] = "Not enough memory"
    /\ Len(ended) = 1 /\ Len(dropLog) = 1
    /\ \E i \in DOMAIN mem : mem[i][1] = "meta"

\* C3: when align_offset + layout.size() > buffer.len(), Box::new panics
\* with "Not enough memory", got = buffer.len(), needed = align_offset +
\* layout.size(), and the buffer's bytes are those before the call.
C3_CapacityRejection ==
    (Attempted /\ Needed > len) =>
        /\ fault = <<"Not enough memory", len, Needed>>
        /\ mem = ghost[1].before
        /\ ~Live

\* An abort in a non-empty buffer that holds earlier bytes, with padding.
C3_Witness ==
    /\ Attempted /\ Needed > len
    /\ fault[1] = "Not enough memory" /\ fault[3] > LastLayout.size
    /\ \E i \in DOMAIN mem : mem[i] # InitByte

C6_CapacityInvariant ==
    Live =>
        /\ meta(usize, mem, box[1]) # <<>>
        /\ box[1].align_offset
             + layout_meta(usize, mem, box[1]).layout.size <= len

\* A moved, accessed container that fills its buffer exactly, after padding.
C6_Witness ==
    /\ Live /\ box[1].owner = "field" /\ lastRef # <<>>
    /\ box[1].align_offset > 0
    /\ box[1].align_offset
         + layout_meta(usize, mem, box[1]).layout.size = len

\* C7: a buffer of L.size() + L.align() - 1 bytes or more, or of L.size() +
\* align_offset bytes for its own start address, is sufficient: Box::new
\* succeeds, and the padding it skips is at most L.align() - 1.
C7_PreSizing ==
    /\ (Attempted /\ len >= LastLayout.size + LastLayout.align - 1) =>
          fault = NoFault
    /\ (Attempted
            /\ len >= LastLayout.size + LeastPadding(addr, LastLayout.align))
          => fault = NoFault
    /\ Live => box[1].align_offset <= LastLayout.align - 1

\* Success in a buffer of exactly L.size() + L.align() - 1 bytes at the
\* worst start address, or of exactly L.size() + align_offset bytes.
C7_Witness ==
    /\ Live /\ lastRef # <<>>
    /\ \/ /\ len = LastLayout.size + LastLayout.align - 1
          /\ box[1].align_offset = LastLayout.align - 1
       \/ /\ len = LastLayout.size + box[1].align_offset
          /\ box[1].align_offset \in 1..(LastLayout.align - 2)

\* C8: at any start address a large enough buffer is accepted; align_offset
\* is the least padding to the combined alignment, and the descriptor and
\* the value lie at addresses aligned for them.
C8_AlignmentRobustness ==
    /\ (Attempted /\ Needed <= len) => fault = NoFault
    /\ Live =>
          /\ meta(usize, mem, box[1]) # <<>>
          /\ box[1].align_offset = LeastPadding(addr, LastLayout.align)
          /\ (addr + box[1].align_offset) % MetaLayout(usize).align = 0
          /\ (addr + value_ptr(usize, mem, box[1]).at)
                % AlignOf(ghost[1].ty) = 0

\* A value stricter than the descriptor, in a buffer that starts off the
\* combined alignment, accessed after construction.
C8_Witness ==
    /\ Live /\ lastRef # <<>>
    /\ AlignOf(ghost[1].ty) > usize
    /\ addr % AlignOf(ghost[1].ty) # 0
    /\ box[1].align_offset > 0

\* C9: a move leaves align_offset, the buffer's address and bytes
\* unchanged, runs no destructor, and an access yields the same value.
C9_MovePreservation ==
    [][(Live /\ box' # <<>> /\ box'[1].owner # box[1].owner) =>
          /\ box'[1].align_offset = box[1].align_offset
          /\ addr' = addr
          /\ mem' = mem
          /\ dropLog' = dropLog /\ ended' = ended
          /\ Deref(usize', mem', box'[1]) = Deref(usize, mem, box[1])]_vars

\* A padded container that was accessed, moved into a field, and shows the
\* same value there.
C9_Witness ==
    /\ Live /\ box[1].owner = "field" /\ box[1].align_offset > 0
    /\ lastRef = <<Deref(usize, mem, box[1])>>
    /\ SizeOf(ghost[1].ty) > 0

\* C10: the (layout, value_offset) recomputed from the stored descriptor is
\* the one Box::new computed from the value; the value lies after the
\* descriptor, inside the layout and the buffer, and is read where written.
C10_OffsetAgreement ==
    Live =>
        /\ meta(usize, mem, box[1]) # <<>>
        /\ LET lm == layout_meta(usize, mem, box[1])
               mol == meta_offset_layout(usize, ghost[1].ty)
               ao == box[1].align_offset
           IN  /\ lm = [layout |-> mol.layout, offset |-> mol.offset,
                        meta |-> mol.meta]
               /\ lm.offset >= usize
               /\ lm.offset + SizeOf(ghost[1].ty) <= lm.layout.size
               /\ ao + lm.layout.size <= len
               /\ ReadBytes(mem, ao, usize) = MetaBytes(usize, ghost[1].ty)
               /\ ReadBytes(mem, ao + lm.offset, SizeOf(ghost[1].ty))
                     = ValueBytes(ghost[1].ty, ghost[1].val)

\* A container with padding between descriptor and value, whose value was
\* replaced through as_mut.
C10_Witness ==
    /\ Live
    /\ layout_meta(usize, mem, box[1]).offset > usize
    /\ ghost[1].val # ghost[1].v0
    /\ lastRef # <<>>

====
